---- MODULE Spec2Model ----
(***************************************************************************)
(* LinguaVid (trans.py): one pipeline run of main() -- the uploaded input  *)
(* copy, the provider's process_video (DubSmart, ElevenLabs, Deepdub),     *)
(* the result display and the finally block that removes the temporaries.  *)
(* Every blocking call (HTTP request, sleep, muxer, file removal) is one   *)
(* step; its answer is chosen by the environment.                          *)
(***************************************************************************)
EXTENDS Integers, Sequences, FiniteSets, TLC

\* check_project_status / check_dubbing_status: max_attempts = 120
max_attempts == 120

\* longest `segments` list of a DubSmart project payload that is enumerated
MaxSegments == 3

\* longest clip duration (in seconds) that is enumerated
MaxDuration == 2

VARIABLES
    service,     \* the dubbing service chosen in the sidebar
    native,      \* the status string every answer carries, when one is fixed
    runs,        \* two sessions: each session's run of main()
    disk,        \* two sessions: whose data each file of the temp dir holds
    pc,          \* position of the run inside main() / process_video()
    files,       \* temporary files that exist in tempfile.gettempdir()
    jobState,    \* lifecycle state of the remote job
    file_key,    \* DubSmart: value returned by upload_video
    job_id,      \* project_id / dubbing_id returned by job creation
    attempt,     \* the poll loop's counter
    queries,     \* status queries issued so far (history)
    sleeps,      \* time.sleep(5) calls made inside the poll loop (history)
    lastAnswer,  \* classification of the last status answer
    onlyNetErr,  \* every status query so far ended in a RequestException
    result,      \* <<location, kind>> returned by check_project_status
    error,       \* <<message, detail>> of the exception that ended the run
    outcome,     \* what main() reported: "none", "success" or "error"
    lastDiag,    \* the `error` field of the last status answer
    downloads,   \* result downloads started (history)
    merges,      \* muxer (write_videofile) invocations (history)
    removeFailed, \* files whose os.remove raised (history)
    payload,     \* the finished project's payload handed to the resolver
    videoDur,    \* video.duration of the original clip at the merge
    audioDur,    \* new_audio.duration of the dubbed audio as opened
    clipDur,     \* duration of the audio handed to set_audio
    outDur       \* duration of the file write_videofile produced

vars == <<service, native, runs, disk, pc, files, jobState, file_key, job_id, attempt, queries,
          sleeps, lastAnswer, onlyNetErr, result, error, outcome, lastDiag,
          downloads, merges, removeFailed, payload, videoDur, audioDur,
          clipDur, outDur>>

pollVars == <<attempt, queries, sleeps, lastAnswer, onlyNetErr, lastDiag>>
histVars == <<downloads, merges>>
mergeVars == <<videoDur, audioDur, clipDur, outDur>>
sessionVars == <<runs, disk>>

----------------------------------------------------------------------------
(* Names *)

Services == {"DubSmart.ai", "ElevenLabs.io", "Deepdub.ai"}
Pollers == {"DubSmart.ai", "ElevenLabs.io"}

\* main: input_path and output_path
input_path == "input"
output_path == "dubbed_input"

\* process_video: the intermediate audio of each service
DubbedAudioPath(s) ==
    CASE s = "DubSmart.ai" -> "dubbed_audio.mp3"
      [] s = "ElevenLabs.io" -> "elevenlabs_audio.mp3"
      [] s = "Deepdub.ai" -> "deepdub_audio.mp3"

\* extract_audio_transcription: the extracted audio of the TTS provider
temp_audio_path == "temp_audio.mp3"

TempFiles == {input_path, output_path, temp_audio_path}
                 \cup {DubbedAudioPath(s) : s \in Services}

NoError == <<"none", "">>
NoResult == <<"none", "none">>

\* diagnostic text a provider may put in the `error` field of a status answer
Diagnostics == {"quota exceeded", "bad media"}
Absent == "<absent>"

\* dict.get(key, default)
Get(v, default) == IF v = Absent THEN default ELSE v

----------------------------------------------------------------------------
(* Status vocabulary *)

\* str.lower() on the status strings that are enumerated
Lower(s) ==
    CASE s \in {"DONE", "Done", "dOnE"} -> "done"
      [] s \in {"COMPLETED", "Completed"} -> "completed"
      [] s \in {"FINISHED", "Finished"} -> "finished"
      [] s \in {"FAILED", "Failed"} -> "failed"
      [] s \in {"ERROR", "Error"} -> "error"
      [] s \in {"CANCELLED", "Cancelled"} -> "cancelled"
      [] s \in {"DUBBED", "Dubbed"} -> "dubbed"
      [] s = "Canceled" -> "canceled"
      [] OTHER -> s

NativeStatuses ==
    {"done", "completed", "finished", "DONE", "Done", "dOnE", "COMPLETED",
     "Completed", "FINISHED", "Finished",
     "failed", "error", "cancelled", "FAILED", "Failed", "ERROR", "Error",
     "CANCELLED", "Cancelled", "canceled", "Canceled",
     "dubbed", "DUBBED", "Dubbed", "dubbing", "processing", "unknown", "",
     Absent}

\* check_project_status: three-way reading of base.state
DubSmartOutcome(base_state) ==
    LET s == Lower(Get(base_state, "unknown")) IN
    IF s \in {"done", "completed", "finished"} THEN "Succeeded"
    ELSE IF s \in {"failed", "error", "cancelled"} THEN "Failed"
    ELSE "Pending"

\* variant: the status is lowered before it is compared
ElevenLabsOutcome_AnyCase(status) ==
    LET s == Lower(Get(status, "unknown")) IN
    IF s = "dubbed" THEN "Succeeded"
    ELSE IF s \in {"failed", "error"} THEN "Failed"
    ELSE "Pending"

\* check_dubbing_status: three-way reading of status
ElevenLabsOutcome(status) ==
    LET s == Get(status, "unknown") IN
    IF s = "dubbed" THEN "Succeeded"
    ELSE IF s \in {"failed", "error"} THEN "Failed"
    ELSE "Pending"

----------------------------------------------------------------------------
(* DubSmart payload of a finished project *)

\* videoResult.value, the resultUrl of each segment, audioPath: present or not
Payloads ==
    [video : BOOLEAN,
     segments : UNION {[1..n -> BOOLEAN] : n \in 0..MaxSegments},
     audioPath : BOOLEAN]

\* variant: the segments are looked at before videoResult
ResolveOutput_SegmentsFirst(p) ==
    IF Len(p.segments) > 0 /\ p.segments[1]
        THEN <<"segments[0].resultUrl", "audio">>
    ELSE IF p.video THEN <<"videoResult.value", "video">>
    ELSE IF p.audioPath THEN <<"audioPath", "audio">>
    ELSE NoResult

\* check_project_status, lines 207-224: the deliverable of a finished project
ResolveOutput(p) ==
    IF p.video THEN <<"videoResult.value", "video">>
    ELSE IF Len(p.segments) > 0 /\ p.segments[1]
        THEN <<"segments[0].resultUrl", "audio">>
    ELSE IF p.audioPath THEN <<"audioPath", "audio">>
    ELSE NoResult

\* the payload before any project has finished
NoPayload == [video |-> FALSE, segments |-> <<>>, audioPath |-> FALSE]

----------------------------------------------------------------------------
(* Raising: an exception leaves process_video and reaches main's except *)

Raise(msg, detail) ==
    /\ error' = <<msg, detail>>
    /\ pc' = "except"

Init ==
    /\ service \in Services
    /\ runs = <<>>
    /\ disk = <<>>
    /\ native = "none"
    /\ pc = "idle"
    /\ files = {}
    /\ jobState = "Created"
    /\ file_key = "unset"
    /\ job_id = "unset"
    /\ attempt = 0
    /\ queries = 0
    /\ sleeps = 0
    /\ lastAnswer = "none"
    /\ onlyNetErr = TRUE
    /\ result = NoResult
    /\ error = NoError
    /\ outcome = "none"
    /\ lastDiag = Absent
    /\ downloads = 0
    /\ merges = 0
    /\ removeFailed = {}
    /\ payload = NoPayload
    /\ videoDur = 0
    /\ audioDur = 0
    /\ clipDur = 0
    /\ outDur = 0

\* main, lines 656-698: the button is pressed, the upload is copied to
\* input_path and the chosen translator's process_video is entered
Start ==
    /\ pc = "idle"
    /\ files' = files \cup {input_path}
    /\ pc' = CASE service = "DubSmart.ai" -> "upload_get"
               [] service = "ElevenLabs.io" -> "create_dubbing"
               [] service = "Deepdub.ai" -> "extract"
    /\ jobState' = IF service \in Pollers THEN "Submitting" ELSE jobState
    /\ UNCHANGED <<service, native, sessionVars, payload, mergeVars, removeFailed,
                   file_key, job_id, pollVars, result, error,
                   outcome, histVars>>

----------------------------------------------------------------------------
(* DubSmartTranslator: submit *)

HttpAnswers == {"ok", "bad_status", "net_error"}

\* upload_video, lines 112-145: GET the presigned URL, PUT the file.
\* A body without `url` makes requests.put(None) raise MissingSchema (a
\* RequestException); a body without `key` is not noticed and None is returned.
upload_video ==
    /\ pc = "upload_get"
    /\ \E get \in HttpAnswers, hasUrl \in BOOLEAN, hasKey \in BOOLEAN,
          put \in HttpAnswers :
         IF get = "net_error"
           THEN /\ Raise("RequestException", "connection")
                /\ jobState' = "Failed" /\ UNCHANGED file_key
         ELSE IF get = "bad_status"
           THEN /\ Raise("Failed to get upload URL", "response.text")
                /\ jobState' = "Failed" /\ UNCHANGED file_key
         ELSE IF ~hasUrl \/ put = "net_error"
           THEN /\ Raise("RequestException",
                         IF hasUrl THEN "connection" ELSE "Invalid URL 'None'")
                /\ jobState' = "Failed" /\ UNCHANGED file_key
         ELSE IF put = "bad_status"
           THEN /\ Raise("File upload failed", "response.text")
                /\ jobState' = "Failed" /\ UNCHANGED file_key
         ELSE /\ file_key' = IF hasKey THEN "key" ELSE "None"
              /\ pc' = "create_project"
              /\ UNCHANGED <<error, jobState>>
    /\ UNCHANGED <<service, native, sessionVars, payload, mergeVars, removeFailed,
                   files, job_id, pollVars, result, outcome, histVars>>

\* create_dubbing_project, lines 147-172, and process_video lines 262-265:
\* the id is project_data.get('id'), None when the field is missing, and the
\* poll loop is entered with whatever was returned
create_dubbing_project ==
    /\ pc = "create_project"
    /\ \E post \in HttpAnswers, hasId \in BOOLEAN :
         IF post = "net_error"
           THEN /\ Raise("RequestException", "connection")
                /\ jobState' = "Failed" /\ UNCHANGED job_id
         ELSE IF post = "bad_status"
           THEN /\ Raise("Project creation failed", "response.text")
                /\ jobState' = "Failed" /\ UNCHANGED job_id
         ELSE /\ job_id' = IF hasId THEN "id" ELSE "None"
              /\ pc' = "poll"
              /\ jobState' = "Polling"
              /\ UNCHANGED error
    /\ UNCHANGED <<service, native, sessionVars, payload, mergeVars, removeFailed,
                   files, file_key, pollVars, result, outcome,
                   histVars>>

----------------------------------------------------------------------------
(* The poll loop of check_project_status and check_dubbing_status *)

\* variant: the loop gives up one iteration early
LoopGuard_Early == attempt < max_attempts - 1

\* variant: the loop also runs with attempt = max_attempts
LoopGuard_OffByOne == attempt <= max_attempts

\* `while attempt < max_attempts`, lines 182 and 347
LoopGuard == attempt < max_attempts

\* variant: the attempt is counted as soon as the answer is read
NonTerminal_CountsFirst(kind) ==
    /\ lastAnswer' = kind
    /\ onlyNetErr' = (onlyNetErr /\ kind = "net_error")
    /\ pc' = "sleep"
    /\ attempt' = attempt + 1
    /\ UNCHANGED <<lastDiag, jobState, result, error>>

\* a query whose answer does not end the loop: the branch's time.sleep(5)
\* is reached next
NonTerminal(kind) ==
    /\ lastAnswer' = kind
    /\ onlyNetErr' = (onlyNetErr /\ kind = "net_error")
    /\ pc' = "sleep"
    /\ UNCHANGED <<attempt, lastDiag, jobState, result, error>>

\* variant: a status code other than 200 ends the run
HttpError_Raises ==
    /\ lastAnswer' = "http_error"
    /\ onlyNetErr' = FALSE
    /\ jobState' = "Failed"
    /\ Raise("Status check failed", "response.status_code")
    /\ UNCHANGED <<attempt, lastDiag, result>>

\* lines 232-234 and 371-373: the status code is not 200
HttpError == NonTerminal("http_error")

\* variant: the RequestException is not caught inside the loop
NetworkError_Propagates ==
    /\ lastAnswer' = "net_error"
    /\ jobState' = "Failed"
    /\ Raise("RequestException", "connection")
    /\ UNCHANGED <<attempt, lastDiag, onlyNetErr, result>>

\* lines 236-238 and 375-377: the query raised a RequestException
NetworkError == NonTerminal("net_error")

\* variant: a reported failure is only noted and the loop goes on
ProviderFailed_KeepsPolling(msg, diag) ==
    /\ lastAnswer' = "Failed"
    /\ onlyNetErr' = FALSE
    /\ jobState' = "Failed"
    /\ lastDiag' = diag
    /\ pc' = "sleep"
    /\ UNCHANGED <<attempt, result, error>>

\* variant: the exception does not quote the provider's `error` field
ProviderFailed_NoDetail(msg, diag) ==
    /\ lastAnswer' = "Failed"
    /\ onlyNetErr' = FALSE
    /\ jobState' = "Failed"
    /\ lastDiag' = diag
    /\ Raise(msg, "Unknown error")
    /\ UNCHANGED <<attempt, result>>

\* lines 226-228 and 366-368: the provider reports the job failed
ProviderFailed(msg, diag) ==
    /\ lastAnswer' = "Failed"
    /\ onlyNetErr' = FALSE
    /\ jobState' = "Failed"
    /\ lastDiag' = diag
    /\ Raise(msg, Get(diag, "Unknown error"))
    /\ UNCHANGED <<attempt, result>>

\* variant: the finished project is noted but the loop is not left
ProjectDone_KeepsPolling(p) ==
    /\ lastAnswer' = "Succeeded"
    /\ onlyNetErr' = FALSE
    /\ jobState' = "Completed"
    /\ pc' = "sleep"
    /\ UNCHANGED <<attempt, lastDiag, result, error>>

\* variant: a finished project without output is polled again
ProjectDone_RetriesNoOutput(p) ==
    /\ lastAnswer' = "Succeeded"
    /\ onlyNetErr' = FALSE
    /\ jobState' = "Completed"
    /\ IF ResolveOutput(p) = NoResult
         THEN /\ pc' = "sleep"
              /\ UNCHANGED <<result, error>>
         ELSE /\ result' = ResolveOutput(p)
              /\ pc' = "download"
              /\ UNCHANGED error
    /\ UNCHANGED <<attempt, lastDiag>>

\* lines 204-224: base.state says the project is finished; its deliverable
\* is returned, or the lack of one is raised
ProjectDone(p) ==
    /\ lastAnswer' = "Succeeded"
    /\ onlyNetErr' = FALSE
    /\ jobState' = "Completed"
    /\ IF ResolveOutput(p) = NoResult
         THEN /\ Raise("Project completed but no output found.", "")
              /\ UNCHANGED result
         ELSE /\ result' = ResolveOutput(p)
              /\ pc' = "download"
              /\ UNCHANGED error
    /\ UNCHANGED <<attempt, lastDiag>>

\* check_project_status, lines 182-228: one status query and its reading,
\* the answer being one of `answers` and its base.state one of `statuses`
QueryProject(answers, statuses) ==
    /\ pc = "poll" /\ service = "DubSmart.ai"
    /\ LoopGuard
    /\ queries' = queries + 1
    /\ \E ans \in answers :
         IF ans = "net_error" THEN NetworkError
         ELSE IF ans = "bad_status" THEN HttpError
         ELSE \E base_state \in statuses :
           CASE DubSmartOutcome(base_state) = "Pending" ->
                    NonTerminal("Pending")
             [] DubSmartOutcome(base_state) = "Failed" ->
                    \E diag \in Diagnostics \cup {Absent} :
                        ProviderFailed("Dubbing failed", diag)
             [] DubSmartOutcome(base_state) = "Succeeded" ->
                    \E p \in Payloads : ProjectDone(p)
    /\ UNCHANGED <<service, native, sessionVars, payload, mergeVars,
                   removeFailed, files, file_key, job_id, sleeps,
                   outcome, histVars>>

\* check_project_status with whatever the provider may answer
check_project_status == QueryProject(HttpAnswers, NativeStatuses)

\* variant: the branch for a status code other than 200 does not sleep
PollSleep_NoSleepOnHttpError ==
    /\ pc = "sleep"
    /\ sleeps' = IF lastAnswer = "http_error" THEN sleeps ELSE sleeps + 1
    /\ attempt' = attempt + 1
    /\ pc' = "poll"
    /\ UNCHANGED <<service, native, sessionVars, payload, mergeVars, removeFailed,
                   files, jobState, file_key, job_id, queries,
                   lastAnswer, onlyNetErr, lastDiag, result, error, outcome,
                   histVars>>

\* lines 230-240 and 370-379: time.sleep(5), then attempt += 1
PollSleep ==
    /\ pc = "sleep"
    /\ sleeps' = sleeps + 1
    /\ attempt' = attempt + 1
    /\ pc' = "poll"
    /\ UNCHANGED <<service, native, sessionVars, payload, mergeVars, removeFailed,
                   files, jobState, file_key, job_id, queries,
                   lastAnswer, onlyNetErr, lastDiag, result, error, outcome,
                   histVars>>

\* variant: the loop falls through and the function returns normally
PollTimeout_Returns ==
    /\ pc = "poll"
    /\ ~LoopGuard
    /\ jobState' = "TimedOut"
    /\ pc' = "download"
    /\ UNCHANGED <<service, native, sessionVars, payload, mergeVars,
                   removeFailed, files, file_key, job_id, pollVars,
                   result, error, outcome, histVars>>

\* line 242 and line 381: the loop is left with the job unfinished
PollTimeout ==
    /\ pc = "poll"
    /\ ~LoopGuard
    /\ jobState' = "TimedOut"
    /\ Raise(IF service = "DubSmart.ai" THEN "Project timeout"
             ELSE "ElevenLabs timeout", "")
    /\ UNCHANGED <<service, native, sessionVars, payload, mergeVars, removeFailed,
                   files, file_key, job_id, pollVars, result,
                   outcome, histVars>>

----------------------------------------------------------------------------
(* ElevenLabsTranslator: submit and poll *)

\* create_dubbing, lines 312-338, and process_video lines 404-407: the id is
\* result.get('dubbing_id'), None when the field is missing
create_dubbing ==
    /\ pc = "create_dubbing"
    /\ \E post \in HttpAnswers, hasId \in BOOLEAN :
         IF post = "net_error"
           THEN /\ Raise("RequestException", "connection")
                /\ jobState' = "Failed" /\ UNCHANGED job_id
         ELSE IF post = "bad_status"
           THEN /\ Raise("ElevenLabs upload failed", "response.text")
                /\ jobState' = "Failed" /\ UNCHANGED job_id
         ELSE /\ job_id' = IF hasId THEN "id" ELSE "None"
              /\ pc' = "poll"
              /\ jobState' = "Polling"
              /\ UNCHANGED error
    /\ UNCHANGED <<service, native, sessionVars, payload, mergeVars, removeFailed,
                   files, file_key, pollVars, result, outcome,
                   histVars>>

\* check_dubbing_status, lines 347-368: one status query and its reading,
\* the answer being one of `answers` and its status one of `statuses`
QueryDubbing(answers, statuses) ==
    /\ pc = "poll" /\ service = "ElevenLabs.io"
    /\ LoopGuard
    /\ queries' = queries + 1
    /\ \E ans \in answers :
         IF ans = "net_error" THEN NetworkError
         ELSE IF ans = "bad_status" THEN HttpError
         ELSE \E status \in statuses :
           CASE ElevenLabsOutcome(status) = "Pending" ->
                    NonTerminal("Pending")
             [] ElevenLabsOutcome(status) = "Failed" ->
                    \E diag \in Diagnostics \cup {Absent} :
                        ProviderFailed("ElevenLabs dubbing failed", diag)
             [] ElevenLabsOutcome(status) = "Succeeded" ->
                    /\ lastAnswer' = "Succeeded"
                    /\ onlyNetErr' = FALSE
                    /\ jobState' = "Completed"
                    /\ pc' = "download"
                    /\ UNCHANGED <<attempt, lastDiag, result, error>>
    /\ UNCHANGED <<service, native, sessionVars, payload, mergeVars,
                   removeFailed, files, file_key, job_id, sleeps,
                   outcome, histVars>>

\* check_dubbing_status with whatever the provider may answer
check_dubbing_status == QueryDubbing(HttpAnswers, NativeStatuses)

----------------------------------------------------------------------------
(* Download, merge and the removal of the intermediate audio *)

\* "partial": the answer was 200 and the stream broke while the file was
\* being written
DownloadAnswers == HttpAnswers \cup {"partial"}

\* variant: the status code of the download is not looked at
DownloadTo_Unchecked(save_path, next) ==
    /\ downloads' = downloads + 1
    /\ \E ans \in DownloadAnswers :
         CASE ans = "ok" ->
                  /\ files' = files \cup {save_path}
                  /\ pc' = next
                  /\ UNCHANGED error
           [] ans = "bad_status" ->
                  /\ pc' = next
                  /\ UNCHANGED <<files, error>>
           [] ans = "net_error" ->
                  /\ Raise("RequestException", "connection")
                  /\ UNCHANGED files
           [] ans = "partial" ->
                  /\ Raise("RequestException", "connection")
                  /\ files' = files \cup {save_path}
    /\ UNCHANGED <<service, native, sessionVars, payload, mergeVars,
                   removeFailed, jobState, file_key, job_id, pollVars,
                   result, outcome, merges>>

\* download_file (244-256) and download_dubbed_file (383-399) writing to
\* save_path; `next` is the position reached when the download succeeds
DownloadTo(save_path, next) ==
    /\ downloads' = downloads + 1
    /\ \E ans \in DownloadAnswers :
         CASE ans = "ok" ->
                  /\ files' = files \cup {save_path}
                  /\ pc' = next
                  /\ UNCHANGED error
           [] ans = "bad_status" ->
                  /\ Raise("Download failed", "response.text")
                  /\ UNCHANGED files
           [] ans = "net_error" ->
                  /\ Raise("RequestException", "connection")
                  /\ UNCHANGED files
           [] ans = "partial" ->
                  /\ Raise("RequestException", "connection")
                  /\ files' = files \cup {save_path}
    /\ UNCHANGED <<service, native, sessionVars, payload, mergeVars, removeFailed,
                   jobState, file_key, job_id, pollVars, result,
                   outcome, merges>>

\* variant: output_type is not looked at
download_file_AlwaysAudio ==
    /\ pc = "download" /\ service = "DubSmart.ai"
    /\ DownloadTo(DubbedAudioPath(service), "merge")

\* DubSmartTranslator.process_video, lines 267-273
download_file ==
    /\ pc = "download" /\ service = "DubSmart.ai"
    /\ IF result[2] = "video"
         THEN DownloadTo(output_path, "returned")
         ELSE DownloadTo(DubbedAudioPath(service), "merge")

\* ElevenLabsTranslator.process_video, lines 409-411
download_dubbed_file ==
    /\ pc = "download" /\ service = "ElevenLabs.io"
    /\ DownloadTo(DubbedAudioPath(service), "merge")

Durations == 1..MaxDuration

\* variant: the audio is handed over as it was opened
TrimAudio_Never(A, V) == A

\* lines 279-280: `if new_audio.duration > video.duration:
\*     new_audio = new_audio.subclip(0, video.duration)`
TrimAudio(A, V) == IF A > V THEN V ELSE A

\* lines 282-289: final_video = video.set_audio(new_audio) keeps the video
\* clip's duration, and write_videofile writes that clip
MuxedDuration(V, clip) == V

\* variant: a failed write_videofile is tried again
Merge_Retries ==
    /\ pc = "merge"
    /\ \E ans \in {"ok", "mux_error"}, V \in Durations, A \in Durations :
         /\ videoDur' = V
         /\ audioDur' = A
         /\ clipDur' = TrimAudio(A, V)
         /\ merges' = merges + 1
         /\ IF ans = "ok"
              THEN /\ outDur' = MuxedDuration(V, TrimAudio(A, V))
                   /\ files' = files \cup {output_path}
                   /\ pc' = "remove_audio"
              ELSE UNCHANGED <<outDur, files, pc>>
    /\ UNCHANGED <<service, native, sessionVars, payload, removeFailed, jobState, file_key, job_id,
                   pollVars, result, error, outcome, downloads>>

\* process_video, lines 275-289, 414-428 and 531-545: the clips are opened,
\* the audio is cut to the video's length and write_videofile muxes them into
\* output_path; a failed muxer may have begun to write the output
Merge ==
    /\ pc = "merge"
    /\ \E ans \in {"ok", "open_error", "mux_error"} :
         CASE ans = "open_error" ->
                  /\ Raise("OSError", "clip")
                  /\ UNCHANGED <<merges, files, mergeVars>>
           [] ans = "ok" ->
                  \E V \in Durations, A \in Durations :
                    /\ videoDur' = V
                    /\ audioDur' = A
                    /\ clipDur' = TrimAudio(A, V)
                    /\ outDur' = MuxedDuration(V, TrimAudio(A, V))
                    /\ merges' = merges + 1
                    /\ files' = files \cup {output_path}
                    /\ pc' = "remove_audio"
                    /\ UNCHANGED error
           [] ans = "mux_error" ->
                  \E V \in Durations, A \in Durations, wrote \in BOOLEAN :
                    /\ videoDur' = V
                    /\ audioDur' = A
                    /\ clipDur' = TrimAudio(A, V)
                    /\ UNCHANGED outDur
                    /\ merges' = merges + 1
                    /\ Raise("IOError", "write_videofile")
                    /\ files' = IF wrote THEN files \cup {output_path}
                                ELSE files
    /\ UNCHANGED <<service, native, sessionVars, payload, removeFailed, jobState, file_key, job_id,
                   pollVars, result, outcome, downloads>>

\* variant: one try around the whole loop, so a failure ends the removals
RemoveAll_OneTry(paths, failing) ==
    /\ files' = IF failing = {} THEN files \ paths ELSE files
    /\ removeFailed' = removeFailed \cup failing

\* `if os.path.exists(f): try: os.remove(f) except: pass` over `paths`;
\* `failing` are the paths whose os.remove raises
RemoveAll(paths, failing) ==
    /\ files' = files \ (paths \ failing)
    /\ removeFailed' = removeFailed \cup failing

\* variant: process_video also removes what it has just written
OwnAudio_WithOutput(s) ==
    IF s = "Deepdub.ai" THEN {temp_audio_path, DubbedAudioPath(s)}
    ELSE {DubbedAudioPath(s), output_path}

\* the audio files process_video removes after a successful merge
OwnAudio(s) ==
    IF s = "Deepdub.ai" THEN {temp_audio_path, DubbedAudioPath(s)}
    ELSE {DubbedAudioPath(s)}

\* process_video, lines 291-301, 430-440 and 547-559
remove_audio ==
    /\ pc = "remove_audio"
    /\ \E failing \in SUBSET (OwnAudio(service) \cap files) :
         RemoveAll(OwnAudio(service), failing)
    /\ pc' = "returned"
    /\ UNCHANGED <<service, native, sessionVars, payload, mergeVars,
                   jobState, file_key, job_id, pollVars, result,
                   error, outcome, histVars>>

----------------------------------------------------------------------------
(* DeepdubTranslator *)

\* extract_audio_transcription, lines 449-476: temp_audio.mp3 is written,
\* then transcribed
extract_audio_transcription ==
    /\ pc = "extract"
    /\ \E ans \in {"ok", "extract_error", "transcribe_error"},
          wrote \in BOOLEAN :
         CASE ans = "ok" ->
                  /\ files' = files \cup {temp_audio_path}
                  /\ pc' = "translate"
                  /\ UNCHANGED error
           [] ans = "extract_error" ->
                  /\ Raise("OSError", "write_audiofile")
                  /\ files' = IF wrote THEN files \cup {temp_audio_path}
                              ELSE files
           [] ans = "transcribe_error" ->
                  /\ Raise("RuntimeError", "transcribe")
                  /\ files' = files \cup {temp_audio_path}
    /\ UNCHANGED <<service, native, sessionVars, payload, mergeVars, removeFailed,
                   jobState, file_key, job_id, pollVars, result,
                   outcome, histVars>>

\* translate_text, lines 478-496
translate_text ==
    /\ pc = "translate"
    /\ \E ok \in BOOLEAN :
         IF ok THEN pc' = "tts" /\ UNCHANGED error
         ELSE Raise("TranslationError", "translate")
    /\ UNCHANGED <<service, native, sessionVars, payload, mergeVars, removeFailed,
                   files, jobState, file_key, job_id, pollVars,
                   result, outcome, histVars>>

\* generate_speech (498-509) and process_video lines 523-528: the TTS bytes
\* are written to deepdub_audio.mp3
generate_speech ==
    /\ pc = "tts"
    /\ \E ok \in BOOLEAN :
         IF ok THEN /\ files' = files \cup {DubbedAudioPath(service)}
                    /\ pc' = "merge"
                    /\ UNCHANGED error
         ELSE /\ Raise("DeepdubError", "tts")
              /\ UNCHANGED files
    /\ UNCHANGED <<service, native, sessionVars, payload, mergeVars, removeFailed,
                   jobState, file_key, job_id, pollVars, result,
                   outcome, histVars>>

----------------------------------------------------------------------------
(* main: the end of the run *)

\* lines 700-713: success is reported and the output is displayed
Show ==
    /\ pc = "returned"
    /\ outcome' = "success"
    /\ pc' = "finally"
    /\ UNCHANGED <<service, native, sessionVars, payload, mergeVars, removeFailed,
                   files, jobState, file_key, job_id, pollVars,
                   result, error, histVars>>

\* lines 715-717: the error is reported with str(e)
Except ==
    /\ pc = "except"
    /\ outcome' = "error"
    /\ pc' = "finally"
    /\ UNCHANGED <<service, native, sessionVars, payload, mergeVars, removeFailed,
                   files, jobState, file_key, job_id, pollVars,
                   result, error, histVars>>

\* variant: the removal sits at the end of the try body, not in finally
Finally_OnSuccessOnly ==
    /\ pc = "finally"
    /\ IF outcome = "success"
         THEN \E failing \in SUBSET ({input_path, output_path} \cap files) :
                  RemoveAll({input_path, output_path}, failing)
         ELSE UNCHANGED <<files, removeFailed>>
    /\ pc' = "done"
    /\ UNCHANGED <<service, native, sessionVars, payload, mergeVars,
                   jobState, file_key, job_id, pollVars, result,
                   error, outcome, histVars>>

\* lines 719-725: input_path and output_path are removed, failures swallowed
Finally ==
    /\ pc = "finally"
    /\ \E failing \in SUBSET ({input_path, output_path} \cap files) :
         RemoveAll({input_path, output_path}, failing)
    /\ pc' = "done"
    /\ UNCHANGED <<service, native, sessionVars, payload, mergeVars,
                   jobState, file_key, job_id, pollVars, result,
                   error, outcome, histVars>>

Next ==
    \/ Start
    \/ upload_video
    \/ create_dubbing_project
    \/ check_project_status
    \/ create_dubbing
    \/ check_dubbing_status
    \/ PollSleep
    \/ PollTimeout
    \/ download_file
    \/ download_dubbed_file
    \/ Merge
    \/ remove_audio
    \/ extract_audio_transcription
    \/ translate_text
    \/ generate_speech
    \/ Show
    \/ Except
    \/ Finally

Spec == Init /\ [][Next]_vars

\* every HTTP call, sleep, muxer run and file removal returns
FairSpec == Spec /\ WF_vars(Next)

----------------------------------------------------------------------------
(* Two sessions of the app on one host: each session runs main() in its   *)
(* own thread and tempfile.gettempdir() is one directory for both. A run  *)
(* is followed through its file operations; submit and poll are one step. *)

Runs == {1, 2}

\* uploaded_file.name of a session
UploadNames == {"a.mp4", "b.mp4"}

\* main, lines 657-664
InputPathOf(name) == name
OutputPathOf(name) == IF name = "a.mp4" THEN "dubbed_a.mp4" ELSE "dubbed_b.mp4"

TempDir ==
    UploadNames \cup {OutputPathOf(n) : n \in UploadNames}
        \cup {temp_audio_path} \cup {DubbedAudioPath(s) : s \in Services}

\* the files among `paths` that hold the data of a run other than r
Foreign(r, paths) == {p \in paths : disk[p] \notin {0, r}}

\* what a run notes when it writes, reads or removes `paths`
Touch(r, paths, how) == IF Foreign(r, paths) = {} THEN {} ELSE {how}

\* one step of run r
RunStep(r, rec, newDisk) ==
    /\ runs' = [runs EXCEPT ![r] = rec]
    /\ disk' = newDisk
    /\ UNCHANGED <<service, native, pc, files, jobState, file_key, job_id,
                   pollVars, result, error, outcome, histVars, removeFailed,
                   payload, mergeVars>>

SessionsInit ==
    /\ runs \in [Runs -> [service : Services, name : UploadNames,
                          pc : {"idle"}, kind : {"none"},
                          mergedVideo : {0}, mergedAudio : {0},
                          shown : {0}, foreign : {{}}]]
    /\ disk = [p \in TempDir |-> 0]
    /\ service = "DubSmart.ai"
    /\ native = "none"
    /\ pc = "idle"
    /\ files = {}
    /\ jobState = "Created"
    /\ file_key = "unset"
    /\ job_id = "unset"
    /\ attempt = 0
    /\ queries = 0
    /\ sleeps = 0
    /\ lastAnswer = "none"
    /\ onlyNetErr = TRUE
    /\ result = NoResult
    /\ error = NoError
    /\ outcome = "none"
    /\ lastDiag = Absent
    /\ downloads = 0
    /\ merges = 0
    /\ removeFailed = {}
    /\ payload = NoPayload
    /\ videoDur = 0
    /\ audioDur = 0
    /\ clipDur = 0
    /\ outDur = 0

\* main, lines 657-659: the upload is written to input_path
SessionStart(r) ==
    LET me == runs[r]
        inp == InputPathOf(me.name)
    IN  /\ me.pc = "idle"
        /\ RunStep(r,
               [me EXCEPT !.pc = IF me.service = "Deepdub.ai"
                                   THEN "extract" ELSE "submit",
                          !.foreign = @ \cup Touch(r, {inp}, "overwrote")],
               [disk EXCEPT ![inp] = r])

\* upload_video (line 131) and create_dubbing (line 316) open video_path;
\* the job is then created and polled to its end
SessionSubmit(r) ==
    LET me == runs[r]
        inp == InputPathOf(me.name)
    IN  /\ me.pc = "submit"
        /\ IF disk[inp] = 0
             THEN RunStep(r, [me EXCEPT !.pc = "except"], disk)
             ELSE \E ans \in {"video", "audio", "failed"} :
                    /\ ans = "video" => me.service = "DubSmart.ai"
                    /\ RunStep(r,
                          [me EXCEPT !.pc = IF ans = "failed" THEN "except"
                                            ELSE "download",
                                     !.kind = IF ans = "failed" THEN @
                                              ELSE ans,
                                     !.foreign =
                                        @ \cup Touch(r, {inp}, "read")],
                          disk)

\* extract_audio_transcription, lines 462-470: video_path is read and
\* temp_audio.mp3 written and transcribed
SessionExtract(r) ==
    LET me == runs[r]
        inp == InputPathOf(me.name)
    IN  /\ me.pc = "extract"
        /\ IF disk[inp] = 0
             THEN RunStep(r, [me EXCEPT !.pc = "except"], disk)
             ELSE RunStep(r,
                    [me EXCEPT !.pc = "speech",
                               !.foreign =
                                  @ \cup Touch(r, {inp}, "read")
                                    \cup Touch(r, {temp_audio_path},
                                               "overwrote")],
                    [disk EXCEPT ![temp_audio_path] = r])

\* DeepdubTranslator.process_video, lines 523-528: the generated speech is
\* written to deepdub_audio.mp3
SessionSpeech(r) ==
    LET me == runs[r]
        au == DubbedAudioPath(me.service)
    IN  /\ me.pc = "speech"
        /\ \E ok \in BOOLEAN :
             IF ok
               THEN RunStep(r,
                      [me EXCEPT !.pc = "merge", !.kind = "audio",
                                 !.foreign =
                                    @ \cup Touch(r, {au}, "overwrote")],
                      [disk EXCEPT ![au] = r])
               ELSE RunStep(r, [me EXCEPT !.pc = "except"], disk)

\* process_video, lines 267-273 and 410-411: the deliverable is downloaded
\* to output_path (video) or to the service's audio file
SessionDownload(r) ==
    LET me == runs[r]
        target == IF me.kind = "video" THEN OutputPathOf(me.name)
                  ELSE DubbedAudioPath(me.service)
    IN  /\ me.pc = "download"
        /\ \E ok \in BOOLEAN :
             IF ok
               THEN RunStep(r,
                      [me EXCEPT !.pc = IF me.kind = "video" THEN "returned"
                                        ELSE "merge",
                                 !.foreign =
                                    @ \cup Touch(r, {target}, "overwrote")],
                      [disk EXCEPT ![target] = r])
               ELSE RunStep(r, [me EXCEPT !.pc = "except"], disk)

\* process_video, lines 275-289 (also 414-428, 531-545): the video at
\* video_path and the audio file are opened and output_path is written
SessionMerge(r) ==
    LET me == runs[r]
        inp == InputPathOf(me.name)
        au == DubbedAudioPath(me.service)
        out == OutputPathOf(me.name)
    IN  /\ me.pc = "merge"
        /\ IF disk[inp] = 0 \/ disk[au] = 0
             THEN RunStep(r, [me EXCEPT !.pc = "except"], disk)
             ELSE \E ok \in BOOLEAN :
                    IF ok
                      THEN RunStep(r,
                             [me EXCEPT !.pc = "remove_audio",
                                        !.mergedVideo = disk[inp],
                                        !.mergedAudio = disk[au],
                                        !.foreign =
                                           @ \cup Touch(r, {inp, au}, "read")
                                             \cup Touch(r, {out},
                                                        "overwrote")],
                             [disk EXCEPT ![out] = r])
                      ELSE RunStep(r, [me EXCEPT !.pc = "except"], disk)

\* process_video, lines 297-301 (also 436-440, 554-559)
SessionRemoveAudio(r) ==
    LET me == runs[r]
        gone == OwnAudio(me.service)
    IN  /\ me.pc = "remove_audio"
        /\ RunStep(r,
               [me EXCEPT !.pc = "returned",
                          !.foreign = @ \cup Touch(r, gone, "removed")],
               [p \in TempDir |-> IF p \in gone THEN 0 ELSE disk[p]])

\* main, lines 700-713: st.video and open() read output_path
SessionShow(r) ==
    LET me == runs[r]
        out == OutputPathOf(me.name)
    IN  /\ me.pc = "returned"
        /\ IF disk[out] = 0
             THEN RunStep(r, [me EXCEPT !.pc = "except"], disk)
             ELSE RunStep(r,
                    [me EXCEPT !.pc = "finally",
                               !.shown = disk[out],
                               !.foreign = @ \cup Touch(r, {out}, "read")],
                    disk)

\* main, lines 715-717
SessionExcept(r) ==
    /\ runs[r].pc = "except"
    /\ RunStep(r, [runs[r] EXCEPT !.pc = "finally"], disk)

\* main, lines 719-725
SessionFinally(r) ==
    LET me == runs[r]
        gone == {InputPathOf(me.name), OutputPathOf(me.name)}
    IN  /\ me.pc = "finally"
        /\ RunStep(r,
               [me EXCEPT !.pc = "done",
                          !.foreign = @ \cup Touch(r, gone, "removed")],
               [p \in TempDir |-> IF p \in gone THEN 0 ELSE disk[p]])

SessionsNext ==
    \E r \in Runs :
        \/ SessionStart(r)
        \/ SessionSubmit(r)
        \/ SessionExtract(r)
        \/ SessionSpeech(r)
        \/ SessionDownload(r)
        \/ SessionMerge(r)
        \/ SessionRemoveAudio(r)
        \/ SessionShow(r)
        \/ SessionExcept(r)
        \/ SessionFinally(r)

SessionsSpec == SessionsInit /\ [][SessionsNext]_vars

----------------------------------------------------------------------------
(* The status reading on every status string: a run of a polling service  *)
(* whose job was submitted and whose every status query is answered 200   *)
(* with the status held in `native`                                       *)

StatusInit ==
    /\ service \in Pollers
    /\ runs = <<>>
    /\ disk = <<>>
    /\ native \in NativeStatuses
    /\ pc = "poll"
    /\ files = {input_path}
    /\ jobState = "Polling"
    /\ file_key = (IF service = "DubSmart.ai" THEN "key" ELSE "unset")
    /\ job_id = "id"
    /\ attempt = 0
    /\ queries = 0
    /\ sleeps = 0
    /\ lastAnswer = "none"
    /\ onlyNetErr = TRUE
    /\ result = NoResult
    /\ error = NoError
    /\ outcome = "none"
    /\ lastDiag = Absent
    /\ downloads = 0
    /\ merges = 0
    /\ removeFailed = {}
    /\ payload = NoPayload
    /\ videoDur = 0
    /\ audioDur = 0
    /\ clipDur = 0
    /\ outDur = 0

\* check_project_status, lines 189-230, reading base.state = native
read_base_state == QueryProject({"ok"}, {native})

\* check_dubbing_status, lines 354-370, reading status = native
read_status == QueryDubbing({"ok"}, {native})

StatusNext ==
    \/ read_base_state
    \/ read_status
    \/ PollSleep
    \/ PollTimeout
    \/ download_file
    \/ download_dubbed_file
    \/ Merge
    \/ remove_audio
    \/ Show
    \/ Except
    \/ Finally

StatusSpec == StatusInit /\ [][StatusNext]_vars

----------------------------------------------------------------------------
(* The resolver on every payload: a DubSmart run whose first status query *)
(* is being answered "done" with the payload held in `payload`           *)

ResolverInit ==
    /\ service = "DubSmart.ai"
    /\ runs = <<>>
    /\ disk = <<>>
    /\ native = "none"
    /\ pc = "resolve"
    /\ payload \in Payloads
    /\ files = {input_path}
    /\ jobState = "Polling"
    /\ file_key = "key"
    /\ job_id = "id"
    /\ attempt = 0
    /\ queries = 1
    /\ sleeps = 0
    /\ lastAnswer = "none"
    /\ onlyNetErr = TRUE
    /\ result = NoResult
    /\ error = NoError
    /\ outcome = "none"
    /\ lastDiag = Absent
    /\ downloads = 0
    /\ merges = 0
    /\ removeFailed = {}
    /\ videoDur = 0
    /\ audioDur = 0
    /\ clipDur = 0
    /\ outDur = 0

\* check_project_status, lines 204-224, on the payload of the answer
resolve_output ==
    /\ pc = "resolve"
    /\ ProjectDone(payload)
    /\ UNCHANGED <<service, native, sessionVars, payload, mergeVars, removeFailed, files, file_key,
                   job_id, queries, sleeps, outcome, histVars>>

ResolverNext ==
    \/ resolve_output
    \/ download_file
    \/ Merge
    \/ remove_audio
    \/ Show
    \/ Except
    \/ Finally

ResolverSpec == ResolverInit /\ [][ResolverNext]_vars

----------------------------------------------------------------------------
(* Properties *)

TimeoutMessages == {"Project timeout", "ElevenLabs timeout"}
FailureMessages == {"Dubbing failed", "ElevenLabs dubbing failed"}
Ended == {"except", "finally", "done"}

\* C1: in one run at most max_attempts status queries are issued, and a
\* loop whose max_attempts queries all left the job unfinished ends in
\* TimedOut with the timeout error, never with a completed result.
C1_PollBounded ==
    /\ queries <= max_attempts
    /\ attempt <= max_attempts
    /\ (attempt = max_attempts /\ pc # "poll") =>
           /\ jobState = "TimedOut"
           /\ queries = max_attempts
           /\ result = NoResult
           /\ error[1] \in TimeoutMessages
           /\ outcome # "success"
    /\ jobState = "TimedOut" => attempt = max_attempts

C1_TimedOutRun ==
    /\ pc = "done"
    /\ jobState = "TimedOut"
    /\ queries = max_attempts
    /\ outcome = "error"

\* C2: a status query that raises a network error leaves the job Polling and
\* costs exactly one attempt (counted after the sleep); when every query
\* raises one, the loop is left after max_attempts queries, in TimedOut, and
\* it is left eventually when every call and sleep returns.
C2_NetworkErrorCostsOneAttempt ==
    /\ [][(lastAnswer' = "net_error" /\ queries' = queries + 1) =>
              (jobState' = "Polling" /\ pc' = "sleep" /\ attempt' = attempt)]_vars
    /\ [][(pc = "sleep" /\ lastAnswer = "net_error") =>
              (attempt' = attempt + 1 /\ queries' = queries
                 /\ jobState' = "Polling")]_vars
    /\ []((onlyNetErr /\ queries > 0 /\ pc \notin {"poll", "sleep"}) =>
              (jobState = "TimedOut" /\ queries = max_attempts))
    /\ ((jobState = "Polling") ~> (~onlyNetErr \/ jobState = "TimedOut"))

C2_OnlyNetworkErrors ==
    /\ pc = "done"
    /\ onlyNetErr
    /\ lastAnswer = "net_error"
    /\ attempt = max_attempts
    /\ jobState = "TimedOut"

\* C3: when a run has ended, none of its temporary files remains (the input
\* copy, the intermediate audio, the extracted audio, the output).  Stated
\* leniently: a file whose os.remove was attempted and raised is not counted.
\* Checked on the runs of the two polling providers.
C3_NoTemporaryLeft ==
    (pc = "done" /\ service \in Pollers) => files \subseteq removeFailed

\* submit (upload or job creation) raised
SubmitRaised == service \in Pollers /\ jobState = "Failed" /\ queries = 0

\* C4 as written: when submit raises, every temporary registered so far is
\* removed before the run ends.
C4_RemovedAfterSubmitRaises ==
    (pc = "done" /\ SubmitRaised) => files = {}

\* C4, amended: when submit raises, main's finally still runs over the input
\* copy and the output path; each is gone when the run ends unless its own
\* os.remove raised (a failure that is swallowed), and nothing else exists.
C4_RemovalAttemptedAfterSubmitRaises ==
    /\ (pc = "done" /\ SubmitRaised) =>
           /\ files \subseteq removeFailed
           /\ files \subseteq {input_path}
           /\ outcome = "error"
    /\ (pc \in {"except", "finally"} /\ SubmitRaised) => files = {input_path}

C4_SubmitRaisedAndCleaned ==
    /\ pc = "done"
    /\ SubmitRaised
    /\ files = {}
    /\ removeFailed = {}
    /\ error[1] = "Project creation failed"

\* C5: once a status query reports the job failed, no further status query
\* is issued, and the run ends with an error whose text is the provider's
\* `error` field.
C5_FailureStopsPolling ==
    /\ [](lastAnswer = "Failed" =>
              /\ jobState = "Failed"
              /\ pc \in Ended
              /\ error[1] \in FailureMessages
              /\ error[2] = Get(lastDiag, "Unknown error")
              /\ (pc \in {"finally", "done"} => outcome = "error"))
    /\ [][lastAnswer = "Failed" =>
              (queries' = queries /\ error' = error /\ pc' \in Ended)]_vars

C5_QuotaExceededAtThirdQuery ==
    /\ pc = "done"
    /\ lastAnswer = "Failed"
    /\ queries = 3
    /\ attempt = 2
    /\ error = <<"Dubbing failed", "quota exceeded">>
    /\ outcome = "error"

\* C6: in a run whose job is TimedOut or Failed no result was resolved, no
\* download was started and the muxer was never invoked.
C6_NoFetchAfterTimeoutOrFailure ==
    jobState \in {"TimedOut", "Failed"} =>
        /\ result = NoResult
        /\ downloads = 0
        /\ merges = 0
        /\ pc \notin {"download", "merge", "remove_audio", "returned"}
        /\ files \subseteq {input_path}

C6_PendingUntilTimeout ==
    /\ pc = "done"
    /\ jobState = "TimedOut"
    /\ lastAnswer = "Pending"
    /\ downloads = 0
    /\ merges = 0

\* C7: when the first status query after a successful submit has been
\* answered Pending (the cycle's sleep is still to come), the job is Polling
\* and attempt is 0.
C7_FirstPendingLeavesAttemptZero ==
    (queries = 1 /\ lastAnswer = "Pending" /\ pc = "sleep") =>
        (jobState = "Polling" /\ attempt = 0 /\ error = NoError)

C7_FirstPendingAnswered ==
    /\ queries = 1
    /\ lastAnswer = "Pending"
    /\ pc = "sleep"
    /\ service = "ElevenLabs.io"

C9_MalformedSubmitFails ==
    (job_id = "None" \/ file_key = "None") =>
        (queries = 0 /\ jobState \in {"Submitting", "Failed"})

\* C10: a status query is issued only after job creation has returned; a
\* result is resolved or downloaded only with the job Completed; the merge
\* starts only after the download of the audio has completed.
C10_StagesInOrder ==
    /\ queries > 0 =>
           (job_id # "unset" /\ jobState \notin {"Created", "Submitting"})
    /\ jobState = "Polling" => (job_id # "unset" /\ pc \in {"poll", "sleep"})
    /\ (service \in Pollers
          /\ (result # NoResult \/ downloads > 0 \/ pc = "download")) =>
           jobState = "Completed"
    /\ pc = "merge" =>
           (DubbedAudioPath(service) \in files /\ error = NoError)
    /\ (service \in Pollers /\ (pc = "merge" \/ merges > 0)) =>
           (downloads = 1 /\ jobState = "Completed" /\ result[2] # "video")

C10_MergedAfterDownload ==
    /\ pc = "remove_audio"
    /\ service = "DubSmart.ai"
    /\ merges = 1
    /\ downloads = 1
    /\ queries > 1

----------------------------------------------------------------------------
(* Job lifecycle *)

Terminal == {"Completed", "Failed", "TimedOut"}
NonTerminalAnswers == {"Pending", "http_error", "net_error"}
TerminalAnswers == {"Succeeded", "Failed"}

\* position of a job state along Created -> Submitting -> Polling -> terminal
Rank(st) ==
    CASE st = "Created" -> 0
      [] st = "Submitting" -> 1
      [] st = "Polling" -> 2
      [] st \in Terminal -> 3

\* C11: the job state only moves forward along Created -> Submitting ->
\* Polling -> {Completed, Failed, TimedOut}; once it is terminal no status
\* query is issued any more and the state never changes.
C11_StateOnlyAdvances ==
    /\ [][Rank(jobState') >= Rank(jobState)]_vars
    /\ [][(jobState \in Terminal) =>
              (jobState' = jobState /\ queries' = queries
                 /\ pc' \notin {"poll", "sleep"})]_vars
    /\ [](jobState \in Terminal => pc \notin {"poll", "sleep"})
    /\ [](pc \in {"poll", "sleep"} => jobState = "Polling")

C11_CompletedAfterPolling ==
    /\ pc = "done"
    /\ jobState = "Completed"
    /\ queries = 3
    /\ outcome = "success"

\* C12: attempt always lies in 0..max_attempts, and the job becomes TimedOut
\* exactly when the loop is left at attempt >= max_attempts with the job
\* still Polling, the last answer seen being a non-terminal one.
C12_TimedOutExactlyAtCap ==
    /\ [](attempt \in 0..max_attempts)
    /\ [][(jobState' = "TimedOut" /\ jobState # "TimedOut") =>
              /\ jobState = "Polling"
              /\ pc = "poll"
              /\ attempt >= max_attempts
              /\ lastAnswer \in NonTerminalAnswers]_vars
    /\ [][(pc = "poll" /\ attempt >= max_attempts /\ pc' # "poll") =>
              (jobState = "Polling" /\ jobState' = "TimedOut")]_vars
    /\ [](jobState = "TimedOut" =>
              (attempt = max_attempts /\ lastAnswer \in NonTerminalAnswers))

C12_TimedOutAtCap ==
    /\ pc = "except"
    /\ jobState = "TimedOut"
    /\ attempt = max_attempts
    /\ lastAnswer = "http_error"

----------------------------------------------------------------------------
(* Asset resolution *)

\* the segments of a payload that carry a resultUrl
AudioSegments(p) == {i \in DOMAIN p.segments : p.segments[i]}

\* the location named by the resultUrl of the i-th segment (segments[i-1])
SegmentLocation(i) ==
    CASE i = 1 -> "segments[0].resultUrl"
      [] i = 2 -> "segments[1].resultUrl"
      [] i = 3 -> "segments[2].resultUrl"
      [] OTHER -> "segments[3].resultUrl"

\* C13: a finished payload that holds a video deliverable and at least one
\* audio segment is resolved to kind video at the video's location.
C13_VideoPreferred ==
    (pc # "resolve" /\ payload.video /\ AudioSegments(payload) # {}) =>
        (result = <<"videoResult.value", "video">> /\ jobState = "Completed")

C13_VideoAndSegmentResolved ==
    /\ pc = "download"
    /\ payload.video
    /\ 1 \in AudioSegments(payload)
    /\ result[2] = "video"

\* C14: a finished payload without a video deliverable in which some segment
\* carries a resultUrl is resolved to kind audio at the location of the
\* first such segment, wherever it stands in the list.
C14_FirstAudioSegmentResolved ==
    (pc # "resolve" /\ ~payload.video /\ AudioSegments(payload) # {}) =>
        LET first == CHOOSE i \in AudioSegments(payload) :
                         \A j \in AudioSegments(payload) : i <= j
        IN  result = <<SegmentLocation(first), "audio">>


\* C15: when the finished project carries a direct video URL, the file is
\* downloaded to output_path, the muxer is never invoked in that run and no
\* intermediate audio file is created.
C15_DirectVideoSkipsMerge ==
    (service = "DubSmart.ai" /\ result[2] = "video") =>
        /\ merges = 0
        /\ clipDur = 0 /\ outDur = 0
        /\ DubbedAudioPath(service) \notin files
        /\ pc \notin {"merge", "remove_audio"}
        /\ (pc = "returned" \/ outcome = "success") => downloads = 1
        /\ pc = "returned" => output_path \in files

C15_DirectVideoDelivered ==
    /\ pc = "finally"
    /\ outcome = "success"
    /\ result = <<"videoResult.value", "video">>
    /\ output_path \in files
    /\ merges = 0

----------------------------------------------------------------------------
(* Merge *)

C17_MuxerAtMostOnce ==
    /\ merges <= 1
    /\ error = <<"IOError", "write_videofile">> =>
           /\ merges = 1
           /\ pc \in Ended
           /\ outcome # "success"
           /\ pc \in {"finally", "done"} => outcome = "error"
    /\ outcome = "success" => error = NoError

C17_MuxerFailed ==
    /\ pc = "done"
    /\ error = <<"IOError", "write_videofile">>
    /\ merges = 1
    /\ outcome = "error"

----------------------------------------------------------------------------
(* Cleanup *)

\* C18: a failing os.remove during cleanup changes neither the reported
\* outcome nor the error of the run, and the removal of the other
\* temporaries of that cleanup is still carried out.
C18_CleanupFailureSwallowed ==
    /\ [][(pc = "finally") =>
              /\ pc' = "done"
              /\ outcome' = outcome /\ error' = error
              /\ (files' \cap {input_path, output_path}) \subseteq removeFailed'
              /\ (removeFailed' \ removeFailed) \subseteq files]_vars
    /\ [][(pc = "remove_audio") =>
              /\ pc' = "returned"
              /\ outcome' = outcome /\ error' = error
              /\ (files' \cap OwnAudio(service)) \subseteq removeFailed']_vars
    /\ [](pc = "done" =>
              outcome = IF error = NoError THEN "success" ELSE "error")

C18_OneRemovalFailed ==
    /\ pc = "done"
    /\ outcome = "success"
    /\ removeFailed = {input_path}
    /\ files = {input_path}

----------------------------------------------------------------------------
(* Poll cycles *)

\* C19: every non-terminal poll cycle sleeps once and then adds one to
\* attempt: attempt and the number of sleeps both equal the number of
\* completed non-terminal cycles, one sleep lies between two consecutive
\* status queries, and no sleep follows a terminal answer.
C19_OneSleepPerCycle ==
    /\ [](sleeps = attempt)
    /\ [](pc = "poll" => queries = attempt)
    /\ [](pc = "sleep" =>
              (queries = attempt + 1 /\ lastAnswer \in NonTerminalAnswers))
    /\ [](lastAnswer \in TerminalAnswers =>
              (sleeps = queries - 1 /\ attempt = queries - 1))
    /\ [](lastAnswer \in NonTerminalAnswers /\ pc # "sleep" =>
              (sleeps = queries /\ attempt = queries))
    /\ [][(pc = "sleep") =>
              (sleeps' = sleeps + 1 /\ attempt' = attempt + 1
                 /\ queries' = queries /\ pc' = "poll")]_vars
    /\ [][(queries' # queries) =>
              (queries' = queries + 1 /\ sleeps = queries /\ sleeps' = sleeps
                 /\ attempt' = attempt)]_vars

C19_ThreeCyclesDone ==
    /\ pc = "poll"
    /\ queries = 3
    /\ attempt = 3
    /\ sleeps = 3
    /\ lastAnswer = "net_error"

\* C20: the loop ends at the first terminal answer, which alone decides its
\* outcome (Completed for Succeeded, Failed for Failed) however many
\* non-terminal answers came before; it ends TimedOut when none of the
\* max_attempts answers is terminal; no answer is requested after a terminal
\* one.
C20_FirstTerminalAnswerDecides ==
    /\ [](lastAnswer \in TerminalAnswers => pc \notin {"poll", "sleep"})
    /\ [](service \in Pollers =>
              (jobState = "Completed" <=> lastAnswer = "Succeeded"))
    /\ []((jobState = "Failed" /\ queries > 0) <=> lastAnswer = "Failed")
    /\ [](jobState = "TimedOut" <=>
              (queries = max_attempts /\ lastAnswer \in NonTerminalAnswers
                 /\ pc \notin {"poll", "sleep"}))
    /\ [][(lastAnswer \in TerminalAnswers) =>
              (queries' = queries /\ lastAnswer' = lastAnswer
                 /\ jobState' = jobState)]_vars

C20_TerminalAtLastAttempt ==
    /\ pc = "download"
    /\ lastAnswer = "Succeeded"
    /\ queries = max_attempts
    /\ attempt = max_attempts - 1

----------------------------------------------------------------------------
(* Status mapping *)

\* C21: the reading of a status answer is total and three-way. DubSmart:
\* done / completed / finished in any letter case is Succeeded, failed /
\* error / cancelled in any letter case is Failed. ElevenLabs: only the exact
\* string dubbed is Succeeded, only failed / error is Failed. Every other
\* status, a missing one included, is Pending, costs one attempt and leaves
\* the loop running.
C21_StatusMappingThreeWay ==
    /\ [](queries > 0 =>
            lastAnswer =
              IF service = "DubSmart.ai"
                THEN IF native \in {"done", "Done", "DONE", "dOnE",
                                    "completed", "Completed", "COMPLETED",
                                    "finished", "Finished", "FINISHED"}
                       THEN "Succeeded"
                     ELSE IF native \in {"failed", "Failed", "FAILED",
                                         "error", "Error", "ERROR",
                                         "cancelled", "Cancelled",
                                         "CANCELLED"}
                       THEN "Failed"
                     ELSE "Pending"
                ELSE IF native = "dubbed" THEN "Succeeded"
                     ELSE IF native \in {"failed", "error"} THEN "Failed"
                     ELSE "Pending")
    /\ [](lastAnswer = "Succeeded" => jobState = "Completed")
    /\ [](lastAnswer = "Failed" =>
              (jobState = "Failed" /\ error[1] \in FailureMessages))
    /\ [](lastAnswer = "Pending" /\ pc = "sleep" =>
              (jobState = "Polling" /\ queries = attempt + 1))
    /\ [][(pc = "sleep") =>
              (pc' = "poll" /\ attempt' = attempt + 1
                 /\ jobState' = "Polling")]_vars

C21_CapitalisedDubbedStaysPending ==
    /\ service = "ElevenLabs.io"
    /\ native = "Dubbed"
    /\ lastAnswer = "Pending"
    /\ attempt = max_attempts
    /\ jobState = "TimedOut"

\* C22: a finished project whose payload has no video and no audio location
\* at all ends the run at once with the no-output error: the poll loop is
\* not continued, no further status query is issued, nothing is downloaded
\* and nothing is merged.
C22_NoDeliverableEndsRun ==
    (/\ pc # "resolve"
     /\ ~payload.video
     /\ AudioSegments(payload) = {}
     /\ ~payload.audioPath) =>
        /\ error = <<"Project completed but no output found.", "">>
        /\ pc \in Ended
        /\ result = NoResult
        /\ queries = 1 /\ attempt = 0 /\ sleeps = 0
        /\ downloads = 0 /\ merges = 0
        /\ files \subseteq {input_path}
        /\ outcome # "success"

C22_EmptySegmentsReported ==
    /\ pc = "done"
    /\ payload = [video |-> FALSE, segments |-> <<FALSE, FALSE>>,
                  audioPath |-> FALSE]
    /\ error[1] = "Project completed but no output found."
    /\ outcome = "error"

----------------------------------------------------------------------------
(* Hand-over of the output *)

\* C23: on a successful run the output file exists at output_path from the
\* end of the download or merge until it has been displayed and offered for
\* download; it is removed only by the cleanup after that hand-over.
C23_OutputKeptUntilShown ==
    /\ [](pc \in {"remove_audio", "returned"} => output_path \in files)
    /\ [](pc = "finally" /\ outcome = "success" => output_path \in files)
    /\ [][(output_path \in files /\ output_path \notin files') =>
              (/\ pc = "finally" /\ pc' = "done"
               /\ outcome \in {"success", "error"}
               /\ error = NoError => outcome = "success")]_vars
    /\ [][(outcome' = "success") =>
              ((output_path \in files /\ output_path \in files')
                 \/ outcome = "success")]_vars

C23_OutputRemovedAfterShown ==
    /\ pc = "done"
    /\ outcome = "success"
    /\ merges = 1
    /\ output_path \notin files
    /\ output_path \notin removeFailed

----------------------------------------------------------------------------
(* Two sessions *)

\* C24: when two runs execute concurrently on one host, no run overwrites,
\* reads or removes the input, output or intermediate audio file of the
\* other, and each run merges only the video it was given and the audio it
\* downloaded itself.
C24_RunsIsolated ==
    \A r \in DOMAIN runs :
        /\ runs[r].foreign = {}
        /\ runs[r].mergedAudio \in {0, r}
        /\ runs[r].mergedVideo \in {0, r}
        /\ runs[r].shown \in {0, r}

====
